---- MODULE Spec2Model ----
(***************************************************************************)
(* Model of the hypothesis-testing framework of statisticaltesting:        *)
(* TestParams (src/src/base.py), the fit lifecycle of OneSampleTest and     *)
(* TwoSampleTest (src/src/base.py), the six concrete tests                  *)
(* (src/src/one_sample_tests.py, src/src/two_samples_tests.py) and the      *)
(* visualization delegates (src/src/plotter.py).                            *)
(*                                                                         *)
(* The numeric procedures (scipy.stats) are an external library.  A float  *)
(* they return is modelled as a symbolic term naming the procedure, its    *)
(* fixed configuration, the component of the returned pair and the samples *)
(* it was applied to, so that two results are equal exactly when they come *)
(* from the same procedure applied to the same samples.                    *)
(***************************************************************************)
EXTENDS Integers, Sequences, FiniteSets, TLC

\* ------------------------------------------------------------------ bounds
\* Number of fit calls the caller issues on one instance.
MaxFits == 2

\* ----------------------------------------------------------------- samples
\* Representative sample buffers a caller may pass to fit.  Elements are
\* written as tokens: decimal literals, "nan" for a NaN, "a".."c" for
\* non-numeric entries.
SampleA == <<"1", "2", "4">>
SampleB == <<"2", "3", "7">>
SampleConst == <<"5", "5", "5">>
SampleNaN == <<"1", "nan", "3">>
SampleEmpty == <<>>
SampleStr == <<"a", "b", "c">>

Samples == {SampleA, SampleB, SampleConst, SampleNaN, SampleEmpty, SampleStr}

Range(s) == {s[n] : n \in 1..Len(s)}

IsEmpty(s) == Len(s) = 0
HasNaN(s) == "nan" \in Range(s)
NonNumeric(s) == Range(s) \cap {"a", "b", "c"} # {}
ZeroVariance(s) == Len(s) > 0 /\ Cardinality(Range(s)) = 1 /\ ~HasNaN(s) /\ ~NonNumeric(s)

\* An input the spec's error taxonomy calls invalid (empty/too small,
\* non-numeric, containing NaN).
InvalidSample(s) == IsEmpty(s) \/ HasNaN(s) \/ NonNumeric(s)

\* ------------------------------------------------------------------- kinds
TwoSampleKinds == {"StudentTest", "MannUWhitneyTest", "LeveneTest", "BartlettTest", "KolmogorovSmirnovTest"}
OneSampleKinds == {"ShapiroWilkTest"}
Kinds == TwoSampleKinds \cup OneSampleKinds
VarianceKinds == {"StudentTest", "LeveneTest", "BartlettTest"}

\* The instance exists in the caller's program but was never constructed.
NoKind == "NoKind"

Instances == {"t1", "t2"}

\* Argument tuples of fit: (x) for one-sample tests, (x, y) for two-sample.
ArgsOf(k) == IF k \in OneSampleKinds THEN {<<x>> : x \in Samples}
             ELSE {<<x, y>> : x \in Samples, y \in Samples}

\* -------------------------------------------------------------- TestParams
NoneStr == "None"
NoneFloat == [proc |-> "None", cfg |-> "", component |-> 0, args |-> <<>>, nan |-> FALSE]

TestParams == [test_name |-> NoneStr, test_statistic |-> NoneFloat, test_pval |-> NoneFloat, test_h0 |-> NoneStr, is_fitted |-> FALSE]

TestName(k) ==
  CASE k = "StudentTest" -> "Student test"
    [] k = "MannUWhitneyTest" -> "Mann Wilcoxon Whitney U Test"
    [] k = "LeveneTest" -> "Levene Test"
    [] k = "BartlettTest" -> "Bartlett test"
    [] k = "KolmogorovSmirnovTest" -> "Kolmogorov Smirnov Test"
    [] k = "ShapiroWilkTest" -> "Shapiro Wilk test"
    [] OTHER -> NoneStr

TestH0(k) ==
  CASE k = "StudentTest" -> "$\\mu_0 = \\mu_1$"
    [] k = "MannUWhitneyTest" -> "P(X > Y) = P(Y > X)"
    [] k = "LeveneTest" -> "$\\sigma^2_1 = \\sigma^2_2$"
    [] k = "BartlettTest" -> "$\\sigma^2_1 = \\sigma^2_2$"
    [] k = "KolmogorovSmirnovTest" -> "The two distributions are the same"
    [] k = "ShapiroWilkTest" -> "$X~N(.)$"
    [] OTHER -> NoneStr

\* Variant of Construct: the two constants are assigned to each other's field.
Construct_swapped(k) == [TestParams EXCEPT !.test_h0 = TestName(k), !.test_name = TestH0(k)]

\* __init__ of a concrete test: super().__init__() then the two constants.
Construct(k) == [TestParams EXCEPT !.test_h0 = TestH0(k), !.test_name = TestName(k)]

\* ------------------------------------------------- the numeric procedures
Procedure(k) ==
  CASE k = "StudentTest" -> "ttest_ind"
    [] k = "MannUWhitneyTest" -> "mannwhitneyu"
    [] k = "LeveneTest" -> "levene"
    [] k = "BartlettTest" -> "bartlett"
    [] k = "KolmogorovSmirnovTest" -> "kstest"
    [] k = "ShapiroWilkTest" -> "shapiro"

Config(k) ==
  CASE k = "StudentTest" -> "equal_var=True"
    [] k = "MannUWhitneyTest" -> "use_continuity=True"
    [] k = "LeveneTest" -> "center=median"
    [] OTHER -> ""

\* The variance-based procedures divide zero by zero when every sample has
\* zero variance, and propagate a NaN of the input (nan_policy defaults to
\* "propagate"); an empty sample yields NaN when the call returns at all.
YieldsNaN(k, args) ==
  \/ \E n \in 1..Len(args) : HasNaN(args[n]) \/ IsEmpty(args[n])
  \/ k \in VarianceKinds /\ \A n \in 1..Len(args) : ZeroVariance(args[n])

\* The library raises on non-numeric data; on an empty sample it raises or
\* returns NaN depending on its version; ranks and empirical CDFs of strings
\* may be computed without error by mannwhitneyu and kstest.
MayRaise(k, args) ==
  \E n \in 1..Len(args) : NonNumeric(args[n]) \/ IsEmpty(args[n])

MayReturn(k, args) ==
  \/ \A n \in 1..Len(args) : ~NonNumeric(args[n])
  \/ k \in {"MannUWhitneyTest", "KolmogorovSmirnovTest"}

Float(k, args, c) == [proc |-> Procedure(k), cfg |-> Config(k), component |-> c, args |-> args, nan |-> YieldsNaN(k, args)]

\* Variant of Reference: the p-value comes first.
Reference_swapped(k, args) == <<Float(k, args, 1), Float(k, args, 0)>>

\* The pair the procedure returns; results[0], results[1] of the source are
\* Reference(k, args)[1], Reference(k, args)[2] here.
Reference(k, args) == <<Float(k, args, 0), Float(k, args, 1)>>

NoResults == <<>>

\* ------------------------------------------------------------------- state
VARIABLES
  kind,    \* kind[i]: class of instance i, NoKind when not constructed
  params,  \* params[i]: the TestParams record owned by instance i
  pc,      \* pc[i]: position of the running fit call on i, "idle" if none
  frame,   \* frame[i]: arguments, locals and history of the latest fit on i
  fits,    \* fits[i]: number of fit calls issued on i
  buffers  \* buffers[i]: present contents of the caller's sample buffers
           \* that were passed to the latest fit on i

vars == <<kind, params, pc, frame, fits, buffers>>

Self(i) == [obj |-> "instance", id |-> i]
NoValue == [obj |-> "None", id |-> ""]

NoFrame == [args |-> <<>>, plot_results |-> FALSE, results |-> NoResults,
            before |-> TestParams, ncompute |-> 0, plotted |-> <<>>,
            status |-> "none", value |-> NoValue]

Init ==
  /\ \E k \in Kinds : kind = [i \in Instances |-> IF i = "t1" THEN k ELSE NoKind]
  /\ params = [i \in Instances |-> IF kind[i] = NoKind THEN TestParams ELSE Construct(kind[i])]
  /\ pc = [i \in Instances |-> "idle"]
  /\ frame = [i \in Instances |-> NoFrame]
  /\ fits = [i \in Instances |-> 0]
  /\ buffers = [i \in Instances |-> <<>>]

\* ----------------------------------------------------------------- actions
\* Variant of Fit: the result is reset to its constructed value on entry.
Fit_resets(i, args, plot_results) ==
  /\ kind[i] # NoKind
  /\ pc[i] = "idle"
  /\ fits[i] < MaxFits
  /\ args \in ArgsOf(kind[i])
  /\ buffers' = [buffers EXCEPT ![i] = args]
  /\ frame' = [frame EXCEPT ![i] = [NoFrame EXCEPT !.args = args, !.plot_results = plot_results,
                                                   !.before = params[i], !.status = "running"]]
  /\ fits' = [fits EXCEPT ![i] = @ + 1]
  /\ pc' = [pc EXCEPT ![i] = "compute"]
  /\ params' = [params EXCEPT ![i] = Construct(kind[i])]
  /\ UNCHANGED kind

\* The caller invokes fit(x[, y], plot_results) on a constructed instance.
Fit(i, args, plot_results) ==
  /\ kind[i] # NoKind
  /\ pc[i] = "idle"
  /\ fits[i] < MaxFits
  /\ args \in ArgsOf(kind[i])
  /\ buffers' = [buffers EXCEPT ![i] = args]
  /\ frame' = [frame EXCEPT ![i] = [NoFrame EXCEPT !.args = args, !.plot_results = plot_results,
                                                   !.before = params[i], !.status = "running"]]
  /\ fits' = [fits EXCEPT ![i] = @ + 1]
  /\ pc' = [pc EXCEPT ![i] = "compute"]
  /\ UNCHANGED <<kind, params>>

\* _compute_test, first statement: the library call returns its pair.
CallProcedure(i) ==
  /\ pc[i] = "compute"
  /\ MayReturn(kind[i], frame[i].args)
  /\ frame' = [frame EXCEPT ![i].results = Reference(kind[i], frame[i].args), ![i].ncompute = @ + 1]
  /\ pc' = [pc EXCEPT ![i] = "set_statistic"]
  /\ UNCHANGED <<kind, params, fits, buffers>>

\* Variant of ProcedureRaises: a failed compute marks the result unfitted.
ProcedureRaises_clearsFlag(i) ==
  /\ pc[i] = "compute"
  /\ MayRaise(kind[i], frame[i].args)
  /\ frame' = [frame EXCEPT ![i].ncompute = @ + 1, ![i].status = "raised_compute"]
  /\ params' = [params EXCEPT ![i].is_fitted = FALSE]
  /\ pc' = [pc EXCEPT ![i] = "idle"]
  /\ UNCHANGED <<kind, fits, buffers>>

\* _compute_test, first statement: the library call raises; the exception
\* leaves _compute_test and fit.
ProcedureRaises(i) ==
  /\ pc[i] = "compute"
  /\ MayRaise(kind[i], frame[i].args)
  /\ frame' = [frame EXCEPT ![i].ncompute = @ + 1, ![i].status = "raised_compute"]
  /\ pc' = [pc EXCEPT ![i] = "idle"]
  /\ UNCHANGED <<kind, params, fits, buffers>>

\* Variant of SetStatistic: the result record is a class attribute, shared
\* by the instances of one kind.
SetStatistic_shared(i) ==
  /\ pc[i] = "set_statistic"
  /\ params' = [j \in Instances |->
                  IF kind[j] = kind[i]
                  THEN [params[j] EXCEPT !.test_statistic = frame[i].results[1]]
                  ELSE params[j]]
  /\ pc' = [pc EXCEPT ![i] = "set_pval"]
  /\ UNCHANGED <<kind, frame, fits, buffers>>

\* Variant of SetStatistic: the flag is raised together with the statistic.
SetStatistic_withFlag(i) ==
  /\ pc[i] = "set_statistic"
  /\ params' = [params EXCEPT ![i].test_statistic = frame[i].results[1], ![i].is_fitted = TRUE]
  /\ pc' = [pc EXCEPT ![i] = "set_pval"]
  /\ UNCHANGED <<kind, frame, fits, buffers>>

\* Variant of SetStatistic: a statistic already present is kept.
SetStatistic_keepsFirst(i) ==
  /\ pc[i] = "set_statistic"
  /\ params' = [params EXCEPT ![i].test_statistic =
                   IF @ = NoneFloat THEN frame[i].results[1] ELSE @]
  /\ pc' = [pc EXCEPT ![i] = "set_pval"]
  /\ UNCHANGED <<kind, frame, fits, buffers>>

\* self.params.test_statistic = results[0]
SetStatistic(i) ==
  /\ pc[i] = "set_statistic"
  /\ params' = [params EXCEPT ![i].test_statistic = frame[i].results[1]]
  /\ pc' = [pc EXCEPT ![i] = "set_pval"]
  /\ UNCHANGED <<kind, frame, fits, buffers>>

\* self.params.test_pval = results[1]
SetPval(i) ==
  /\ pc[i] = "set_pval"
  /\ params' = [params EXCEPT ![i].test_pval = frame[i].results[2]]
  /\ pc' = [pc EXCEPT ![i] = "set_fitted"]
  /\ UNCHANGED <<kind, frame, fits, buffers>>

\* Variant of SetFitted: the flag is left as it was.
SetFitted_skipped(i) ==
  /\ pc[i] = "set_fitted"
  /\ pc' = [pc EXCEPT ![i] = "if_plot"]
  /\ UNCHANGED <<kind, params, frame, fits, buffers>>

\* self.params.is_fitted = True
SetFitted(i) ==
  /\ pc[i] = "set_fitted"
  /\ params' = [params EXCEPT ![i].is_fitted = TRUE]
  /\ pc' = [pc EXCEPT ![i] = "if_plot"]
  /\ UNCHANGED <<kind, frame, fits, buffers>>

\* Variant of IfPlot: the delegate is invoked whatever the flag.
IfPlot_always(i) ==
  /\ pc[i] = "if_plot"
  /\ pc' = [pc EXCEPT ![i] = "plot"]
  /\ UNCHANGED <<kind, params, frame, fits, buffers>>

\* if plot_results:
IfPlot(i) ==
  /\ pc[i] = "if_plot"
  /\ pc' = [pc EXCEPT ![i] = IF frame[i].plot_results THEN "plot" ELSE "return"]
  /\ UNCHANGED <<kind, params, frame, fits, buffers>>

\* What the delegate is handed: the samples and the instance's params.
Invocation(i) == [args |-> frame[i].args, results |-> params[i]]

Reverse(s) == [n \in 1..Len(s) |-> s[Len(s) + 1 - n]]

\* Variant of PlotResults: the delegate reorders the samples in place.
PlotResults_reorders(i) ==
  /\ pc[i] = "plot"
  /\ frame' = [frame EXCEPT ![i].plotted = Append(@, Invocation(i))]
  /\ buffers' = [buffers EXCEPT ![i] = [n \in 1..Len(@) |-> Reverse(@[n])]]
  /\ pc' = [pc EXCEPT ![i] = "return"]
  /\ UNCHANGED <<kind, params, fits>>

\* Variant of PlotResults: the delegate stores the p-value it displays,
\* which is the statistic.
PlotResults_writes(i) ==
  /\ pc[i] = "plot"
  /\ frame' = [frame EXCEPT ![i].plotted = Append(@, Invocation(i))]
  /\ params' = [params EXCEPT ![i].test_pval = params[i].test_statistic]
  /\ pc' = [pc EXCEPT ![i] = "return"]
  /\ UNCHANGED <<kind, fits, buffers>>

\* self._plot_results(x[, y]): the delegate reads the samples and the
\* result record, draws and returns.
PlotResults(i) ==
  /\ pc[i] = "plot"
  /\ frame' = [frame EXCEPT ![i].plotted = Append(@, Invocation(i))]
  /\ pc' = [pc EXCEPT ![i] = "return"]
  /\ UNCHANGED <<kind, params, fits, buffers>>

\* Variant of PlotRaises: fit restores the result it found on entry.
PlotRaises_rollsBack(i) ==
  /\ pc[i] = "plot"
  /\ frame' = [frame EXCEPT ![i].plotted = Append(@, Invocation(i)), ![i].status = "raised_plot"]
  /\ params' = [params EXCEPT ![i] = frame[i].before]
  /\ pc' = [pc EXCEPT ![i] = "idle"]
  /\ UNCHANGED <<kind, fits, buffers>>

\* self._plot_results(x[, y]): the delegate raises (for instance no display
\* backend); the exception leaves fit.
PlotRaises(i) ==
  /\ pc[i] = "plot"
  /\ frame' = [frame EXCEPT ![i].plotted = Append(@, Invocation(i)), ![i].status = "raised_plot"]
  /\ pc' = [pc EXCEPT ![i] = "idle"]
  /\ UNCHANGED <<kind, params, fits, buffers>>

\* Variant of Return: fit returns the result record instead of the instance.
Return_params(i) ==
  /\ pc[i] = "return"
  /\ frame' = [frame EXCEPT ![i].status = "returned", ![i].value = [obj |-> "params", id |-> i]]
  /\ pc' = [pc EXCEPT ![i] = "idle"]
  /\ UNCHANGED <<kind, params, fits, buffers>>

\* return self
Return(i) ==
  /\ pc[i] = "return"
  /\ frame' = [frame EXCEPT ![i].status = "returned", ![i].value = Self(i)]
  /\ pc' = [pc EXCEPT ![i] = "idle"]
  /\ UNCHANGED <<kind, params, fits, buffers>>

\* Contents the caller may write over a sample buffer after a call.
CallerFills == {SampleNaN}

\* After a fit call on i has ended, the caller overwrites the buffers it
\* passed to that call (sample1 = ..., sample2 = ... of the driver script).
CallerWrites(i, s) ==
  /\ kind[i] # NoKind
  /\ pc[i] = "idle"
  /\ frame[i].status # "none"
  /\ buffers[i] = frame[i].args
  /\ LET filled == [n \in 1..Len(buffers[i]) |-> s] IN
       /\ filled # buffers[i]
       /\ buffers' = [buffers EXCEPT ![i] = filled]
  /\ UNCHANGED <<kind, params, pc, frame, fits>>

Next ==
  \/ \E i \in Instances, x \in Samples, y \in Samples, p \in BOOLEAN :
       \/ Fit(i, <<x>>, p)
       \/ Fit(i, <<x, y>>, p)
  \/ \E i \in Instances : CallProcedure(i)
  \/ \E i \in Instances : ProcedureRaises(i)
  \/ \E i \in Instances : SetStatistic(i)
  \/ \E i \in Instances : SetPval(i)
  \/ \E i \in Instances : SetFitted(i)
  \/ \E i \in Instances : IfPlot(i)
  \/ \E i \in Instances : PlotResults(i)
  \/ \E i \in Instances : PlotRaises(i)
  \/ \E i \in Instances : Return(i)
  \/ \E i \in Instances, s \in CallerFills : CallerWrites(i, s)

Spec == Init /\ [][Next]_vars

\* ------------------------------------------- two instances, interleaved
\* A caller that drives two distinct instances at once: the steps of the
\* fit calls on the two instances interleave freely.
ConcKinds == {"StudentTest", "ShapiroWilkTest"}

\* Argument tuples this caller passes; Fit keeps those of the right arity.
ConcArgs == {<<SampleA>>, <<SampleEmpty>>, <<SampleA, SampleB>>, <<SampleEmpty, SampleB>>}

InitConc ==
  /\ kind \in [Instances -> ConcKinds]
  /\ params = [i \in Instances |-> Construct(kind[i])]
  /\ pc = [i \in Instances |-> "idle"]
  /\ frame = [i \in Instances |-> NoFrame]
  /\ fits = [i \in Instances |-> 0]
  /\ buffers = [i \in Instances |-> <<>>]

NextConc ==
  \/ \E i \in Instances, args \in ConcArgs, p \in BOOLEAN : Fit(i, args, p)
  \/ \E i \in Instances : CallProcedure(i)
  \/ \E i \in Instances : ProcedureRaises(i)
  \/ \E i \in Instances : SetStatistic(i)
  \/ \E i \in Instances : SetPval(i)
  \/ \E i \in Instances : SetFitted(i)
  \/ \E i \in Instances : IfPlot(i)
  \/ \E i \in Instances : PlotResults(i)
  \/ \E i \in Instances : PlotRaises(i)
  \/ \E i \in Instances : Return(i)
  \/ \E i \in Instances, s \in CallerFills : CallerWrites(i, s)

SpecConc == InitConc /\ [][NextConc]_vars

\* ------------------------------------------------------------------ claims
Constructed == {i \in Instances : kind[i] # NoKind}

\* The result a freshly constructed instance of kind k holds after one
\* successful fit on args.
FreshFit(k, args) ==
  [Construct(k) EXCEPT !.test_statistic = Reference(k, args)[1],
                       !.test_pval = Reference(k, args)[2],
                       !.is_fitted = TRUE]

\* C1: for every test kind, is_fitted is false (and test_statistic and
\* test_pval are None) as long as no fit was issued on the constructed
\* instance, and is_fitted is true once a fit call has returned, whatever
\* the samples and plot_results.
C1_FittedAfterFit ==
  \A i \in Constructed :
    /\ fits[i] = 0 => /\ params[i].is_fitted = FALSE
                      /\ params[i].test_statistic = NoneFloat
                      /\ params[i].test_pval = NoneFloat
    /\ frame[i].status = "returned" => params[i].is_fitted = TRUE

C1_Witness ==
  \E i \in Constructed :
    /\ kind[i] = "ShapiroWilkTest"
    /\ frame[i].status = "returned"
    /\ frame[i].plot_results
    /\ params[i].is_fitted

\* C2: within one fit call the numeric procedure is invoked exactly once;
\* statistic, p-value and is_fitted are written before the plot test; the
\* delegate is invoked only when plot_results is true, at most once, after
\* the compute step, with the samples given to fit and a result that is
\* already fitted; with plot_results false it is never invoked.
C2_FitOrder ==
  \A i \in Constructed :
    LET f == frame[i] IN
    /\ f.ncompute <= 1
    /\ (pc[i] \notin {"idle", "compute"} \/ f.status \in {"returned", "raised_plot"}) => f.ncompute = 1
    /\ pc[i] \in {"if_plot", "plot", "return"} =>
         /\ params[i].test_statistic = f.results[1]
         /\ params[i].test_pval = f.results[2]
         /\ params[i].is_fitted
    /\ Len(f.plotted) <= 1
    /\ ~f.plot_results => f.plotted = <<>>
    /\ pc[i] \in {"compute", "set_statistic", "set_pval", "set_fitted", "if_plot", "plot"} => f.plotted = <<>>
    /\ (f.status = "returned" /\ f.plot_results) => Len(f.plotted) = 1
    /\ \A n \in 1..Len(f.plotted) :
         /\ f.plotted[n].args = f.args
         /\ f.plotted[n].results.is_fitted
         /\ f.plotted[n].results.test_statistic = f.results[1]
         /\ f.plotted[n].results.test_pval = f.results[2]

C2_Witness ==
  \E i \in Constructed :
    /\ frame[i].status = "returned"
    /\ frame[i].plot_results
    /\ Len(frame[i].plotted) = 1
    /\ frame[i].ncompute = 1

\* C3: a fit call that completes without raising returns the instance it
\* was called on, whose params is the result just written.
C3_ReturnsSelf ==
  \A i \in Constructed :
    frame[i].status = "returned" =>
      /\ frame[i].value = Self(i)
      /\ params[frame[i].value.id].test_statistic = frame[i].results[1]
      /\ params[frame[i].value.id].test_pval = frame[i].results[2]

C3_Witness ==
  \E i \in Constructed :
    /\ kind[i] \in TwoSampleKinds
    /\ frame[i].status = "returned"
    /\ ~frame[i].plot_results
    /\ frame[i].value = Self(i)
    /\ params[i].test_statistic = Reference(kind[i], frame[i].args)[1]

\* C4: after any sequence of successful fit calls on one instance the
\* result is the one a freshly constructed instance of the same kind holds
\* after a single fit with the last call's samples.
C4_LastFitWins ==
  \A i \in Constructed :
    frame[i].status = "returned" => params[i] = FreshFit(kind[i], frame[i].args)

C4_Witness ==
  \E i \in Constructed :
    /\ fits[i] >= 2
    /\ frame[i].status = "returned"
    /\ frame[i].before.is_fitted
    /\ frame[i].before.test_statistic # params[i].test_statistic
    /\ frame[i].before.test_pval # params[i].test_pval

\* C5: when the numeric procedure fails, the failure reaches the caller of
\* fit, the result is exactly what it was before the call and the delegate
\* is not invoked.
C5_ComputeFailureKeepsResult ==
  \A i \in Constructed :
    frame[i].status = "raised_compute" =>
      /\ pc[i] = "idle"
      /\ params[i] = frame[i].before
      /\ frame[i].plotted = <<>>

C5_Witness ==
  \E i \in Constructed :
    /\ frame[i].status = "raised_compute"
    /\ frame[i].plot_results
    /\ frame[i].before.is_fitted
    /\ params[i].test_statistic # NoneFloat

\* C6: when the delegate fails after the compute step succeeded, the
\* result stays fitted and holds the statistic and p-value computed from
\* that call's samples.
C6_PlotFailureKeepsResult ==
  \A i \in Constructed :
    frame[i].status = "raised_plot" =>
      /\ params[i].is_fitted
      /\ params[i].test_statistic = Reference(kind[i], frame[i].args)[1]
      /\ params[i].test_pval = Reference(kind[i], frame[i].args)[2]

C6_Witness ==
  \E i \in Constructed :
    /\ frame[i].status = "raised_plot"
    /\ frame[i].plot_results
    /\ params[i].is_fitted
    /\ params[i] # frame[i].before

\* C7: the result left by fit does not depend on plot_results: a returned
\* fit leaves the five fields the compute step alone produces from the
\* result found on entry, and the delegate leaves the result and the
\* samples as it received them.
C7_PlotLeavesResult ==
  \A i \in Constructed :
    LET f == frame[i] IN
    /\ f.status = "returned" =>
         params[i] = [f.before EXCEPT !.test_statistic = Reference(kind[i], f.args)[1],
                                      !.test_pval = Reference(kind[i], f.args)[2],
                                      !.is_fitted = TRUE]
    /\ (pc[i] = "return" \/ f.status \in {"returned", "raised_plot"}) =>
         \A n \in 1..Len(f.plotted) : f.plotted[n] = [args |-> f.args, results |-> params[i]]

C7_Witness ==
  \E i \in Constructed :
    /\ kind[i] = "StudentTest"
    /\ frame[i].status = "returned"
    /\ frame[i].plot_results
    /\ Len(frame[i].plotted) = 1
    /\ params[i] = FreshFit(kind[i], frame[i].args)

\* C8: test_name and test_h0 are the constants of the instance's kind in
\* every state; no step of fit changes them, and test_statistic, test_pval
\* and is_fitted change only in the three assignments of the compute step.
C8_NameAndH0Fixed ==
  /\ [](\A i \in Constructed : /\ params[i].test_name = TestName(kind[i])
                               /\ params[i].test_h0 = TestH0(kind[i]))
  /\ [][\A i \in Constructed :
          /\ params'[i].test_name = params[i].test_name
          /\ params'[i].test_h0 = params[i].test_h0
          /\ params'[i] # params[i] => pc[i] \in {"set_statistic", "set_pval", "set_fitted"}]_vars

C8_Witness ==
  \E i \in Constructed :
    /\ fits[i] >= 2
    /\ frame[i].status \in {"raised_compute", "raised_plot"}
    /\ frame[i].before.is_fitted
    /\ params[i].test_name = TestName(kind[i])
    /\ params[i].test_h0 = TestH0(kind[i])

InvalidArgs(args) == \E n \in 1..Len(args) : InvalidSample(args[n])

\* C9: an invalid input (empty, non-numeric or containing NaN) makes fit
\* fail before any field of the result is changed: the call does not
\* return and the result keeps the values it had on entry.
C9_InvalidInputFails ==
  \A i \in Constructed :
    (frame[i].status # "none" /\ InvalidArgs(frame[i].args)) =>
      /\ frame[i].status # "returned"
      /\ params[i] = frame[i].before

ZeroVarianceArgs(args) == \A n \in 1..Len(args) : ZeroVariance(args[n])

\* C10: zero-variance samples given to Student, Levene or Bartlett are
\* signaled as a failure: fit never returns with is_fitted true and a NaN
\* from the procedure stored as statistic or p-value.
C10_DegenerateInputFails ==
  \A i \in Constructed :
    (kind[i] \in VarianceKinds /\ ZeroVarianceArgs(frame[i].args) /\ frame[i].status = "returned") =>
      ~(params[i].is_fitted /\ (params[i].test_statistic.nan \/ params[i].test_pval.nan))

\* The result instance i holds between calls when its fit calls run alone.
Alone(i) ==
  CASE frame[i].status = "none" -> Construct(kind[i])
    [] frame[i].status = "raised_compute" -> frame[i].before
    [] OTHER -> FreshFit(kind[i], frame[i].args)

\* C11: each instance owns its result record: under any interleaving of
\* the steps of fit calls running on distinct instances, of the same kind
\* included, a result changes only in a compute assignment of its own
\* instance's fit, and between calls each instance holds the result it
\* would hold had its fit calls run alone.
C11_OwnResultRecord ==
  /\ [](\A i \in Instances : pc[i] = "idle" => params[i] = Alone(i))
  /\ [][\A i \in Instances :
          params'[i] # params[i] =>
            /\ pc[i] \in {"set_statistic", "set_pval", "set_fitted"}
            /\ pc'[i] # pc[i]
            /\ \A j \in Instances \ {i} : params'[j] = params[j]]_vars

C11_Witness ==
  \E i \in Instances, j \in Instances :
    /\ i # j
    /\ kind[i] = kind[j]
    /\ frame[i].status = "returned"
    /\ pc[j] = "set_pval"
    /\ frame[i].args # frame[j].args
    /\ params[i] = FreshFit(kind[i], frame[i].args)
    /\ params[j].test_statistic = Reference(kind[j], frame[j].args)[1]

\* C12: after a successful fit, test_statistic and test_pval are the first
\* and the second component of the kind's own procedure applied to the
\* samples given to fit with the kind's fixed configuration: pooled
\* equal-variance t-test for Student, continuity correction for
\* Mann-Whitney U, median centering for Levene, defaults for Bartlett,
\* Kolmogorov-Smirnov and Shapiro-Wilk.
C12_OwnProcedure ==
  \A i \in Constructed :
    frame[i].status = "returned" =>
      LET st == params[i].test_statistic
          pv == params[i].test_pval
          k == kind[i]
      IN
      /\ st.component = 0 /\ pv.component = 1
      /\ st.args = frame[i].args /\ pv.args = frame[i].args
      /\ st.proc = pv.proc /\ st.cfg = pv.cfg
      /\ k = "StudentTest" => (st.proc = "ttest_ind" /\ st.cfg = "equal_var=True")
      /\ k = "MannUWhitneyTest" => (st.proc = "mannwhitneyu" /\ st.cfg = "use_continuity=True")
      /\ k = "LeveneTest" => (st.proc = "levene" /\ st.cfg = "center=median")
      /\ k = "BartlettTest" => (st.proc = "bartlett" /\ st.cfg = "")
      /\ k = "KolmogorovSmirnovTest" => (st.proc = "kstest" /\ st.cfg = "")
      /\ k = "ShapiroWilkTest" => (st.proc = "shapiro" /\ st.cfg = "")

C12_Witness ==
  \E i \in Constructed :
    /\ kind[i] = "LeveneTest"
    /\ frame[i].status = "returned"
    /\ frame[i].args = <<SampleA, SampleB>>
    /\ params[i].test_statistic.proc = "levene"
    /\ params[i].test_pval.component = 1

\* C13: in every reachable state, between the three assignments of the
\* compute step and after a failed fit included, is_fitted true implies
\* that test_statistic and test_pval are both set.
C13_FittedImpliesValues ==
  \A i \in Constructed :
    params[i].is_fitted =>
      /\ params[i].test_statistic # NoneFloat
      /\ params[i].test_pval # NoneFloat

C13_Witness ==
  \E i \in Constructed :
    /\ pc[i] = "set_pval"
    /\ params[i].test_statistic # NoneFloat
    /\ params[i].test_pval = NoneFloat
    /\ ~params[i].is_fitted

\* C14: an instance starts unfitted; is_fitted becomes true only in the
\* last assignment of a compute step whose procedure returned, and once
\* true no later step of any fit call makes it false again.
C14_FittedIsStable ==
  /\ \A i \in Constructed : ~params[i].is_fitted
  /\ [][\A i \in Constructed :
          /\ params[i].is_fitted => params'[i].is_fitted
          /\ (~params[i].is_fitted /\ params'[i].is_fitted) =>
               /\ pc[i] = "set_fitted"
               /\ frame[i].ncompute = 1
               /\ frame[i].results = Reference(kind[i], frame[i].args)]_vars

C14_Witness ==
  \E i \in Constructed :
    /\ fits[i] >= 2
    /\ frame[i].status = "raised_compute"
    /\ frame[i].before.is_fitted
    /\ params[i].is_fitted

\* C15: the samples passed to fit are only read: no step of fit, of the
\* compute step or of the delegate changes the caller's buffers, and
\* when the caller overwrites them after the call the result is left as
\* computed.
C15_SamplesBorrowed ==
  /\ [](\A i \in Constructed : pc[i] # "idle" => buffers[i] = frame[i].args)
  /\ [][\A i \in Constructed :
          /\ pc[i] # "idle" => buffers'[i] = buffers[i]
          /\ buffers'[i] # buffers[i] /\ pc'[i] = "idle" => params'[i] = params[i]]_vars

C15_Witness ==
  \E i \in Constructed :
    /\ frame[i].status = "returned"
    /\ frame[i].plot_results
    /\ buffers[i] # frame[i].args
    /\ params[i] = FreshFit(kind[i], frame[i].args)

TypeOK ==
  /\ kind \in [Instances -> Kinds \cup {NoKind}]
  /\ pc \in [Instances -> {"idle", "compute", "set_statistic", "set_pval", "set_fitted", "if_plot", "plot", "return"}]
  /\ \A i \in Instances : fits[i] \in 0..MaxFits
====
